---- MODULE Spec2Model ----
(***************************************************************************)
(* A model of scrappey_wrapper: ScrappeyClient.concurrent_scrape (the      *)
(* batch fan-out behind one asyncio.Semaphore), ScrappeyClient.async_scrape *)
(* (the retry loop around _make_request), ScrapeApiResponse.__init__ and  *)
(* ScrappeyClient._get_retry_delay.                                        *)
(*                                                                         *)
(* asyncio is cooperative: a coroutine runs without interruption between   *)
(* two awaits that really suspend.  The suspension points of a batch are   *)
(* the wait for the semaphore, the HTTP call inside _make_request and the  *)
(* backoff asyncio.sleep; each action below runs one coroutine from one    *)
(* of them to the next.                                                    *)
(***************************************************************************)
EXTENDS Integers, Sequences, FiniteSets, TLC

VARIABLES
    max_concurrency,  \* self.max_concurrency
    max_retries,      \* self.max_retries
    configs,          \* the list given to concurrent_scrape
    direct,           \* the configs given to async_scrape directly instead
    session_id,       \* the session_id argument of the call
    iter,             \* the consumer's position in `async for`
    semaphore,        \* the value of the asyncio.Semaphore of the batch
    holding,          \* the tasks inside `async with semaphore`
    pc,               \* each task's suspension point
    attempt,          \* each task's loop variable `attempt`
    last_error,       \* each task's local `last_error`
    used_timeout,     \* request_timeout of each task's latest _make_request
    scrape_result,    \* what async_scrape returned or raised, per task
    task_result,      \* what scrape_with_semaphore returned or raised
    completed,        \* the tasks in the order they finished
    yielded,          \* the elements the consumer has received
    calls,            \* observed: _make_request calls per task
    sleeps,           \* observed: backoff sleeps per task
    only_transient,   \* observed: every call so far failed, none with auth
    only_auth,        \* observed: every call so far failed with auth
    auth_failed,      \* observed: the latest call failed with auth
    payload,          \* each task's local `payload` of async_scrape
    sent,             \* observed: the payloads given to _make_request
    retry_delay,      \* self.retry_delay
    retry_max_delay,  \* self.retry_max_delay
    delay_attempt,    \* the argument of the latest _get_retry_delay call
    delay_draw,       \* the random.random() draw of that call, in steps
    delay_scaled,     \* its return value, times DelayScale
    ctor_key,         \* __init__: key, or else SCRAPPEY_KEY ("" when neither)
    ctor_arg,         \* __init__: the max_concurrency argument
    ctor_state,       \* __init__: not run, returned, or raised
    http_outcome,     \* _make_request: what client.post(...) does
    transport_result, \* _make_request: what it returns or raises
    tr_original,      \* to_scrappey_payload: the ScrapeConfig as constructed
    tr_config,        \* to_scrappey_payload: the ScrapeConfig as it is now
    tr_session_id,    \* to_scrappey_payload: the session_id argument
    tr_payloads       \* to_scrappey_payload: the payloads returned so far

vars == << max_concurrency, max_retries, configs, direct, session_id, iter,
           semaphore, holding,
           pc, attempt, last_error, used_timeout, scrape_result, task_result,
           completed, yielded, calls, sleeps, only_transient, only_auth,
           auth_failed, payload, sent, retry_delay, retry_max_delay, delay_attempt, delay_draw,
           delay_scaled, ctor_key, ctor_arg, ctor_state, http_outcome,
           transport_result, tr_original, tr_config, tr_session_id,
           tr_payloads >>

batchVars == << max_concurrency, max_retries, configs, direct, session_id,
                iter, semaphore, holding, pc, attempt, last_error, used_timeout,
                scrape_result, task_result, completed, yielded, calls,
                sleeps, only_transient, only_auth, auth_failed, payload,
                sent >>

delayVars == << retry_delay, retry_max_delay, delay_attempt, delay_draw,
                delay_scaled >>

ctorVars == << ctor_key, ctor_arg, ctor_state >>

(* What the steps of a batch or of a direct call leave alone. *)
transportVars == << http_outcome, transport_result >>

translateVars == << tr_original, tr_config, tr_session_id, tr_payloads >>

restVars == << delayVars, ctorVars, transportVars, translateVars >>

----------------------------------------------------------------------------
(* Bounds of the model. *)

MaxBatch == 2        \* longest list of configs
MaxRetries == 1      \* largest max_retries
MaxConc == 2         \* largest max_concurrency
MaxBase == 3         \* largest retry_delay
MaxCap == 6          \* largest retry_max_delay
MaxAttempt == 3      \* largest attempt index given to _get_retry_delay
JitterSteps == 4     \* random.random() is drawn as k / JitterSteps

(* Program constants. *)

DefaultTimeout == 120      \* timeout: int = 120

DefaultRetryDelay == 1     \* retry_delay: float = 1.0
DefaultRetryMaxDelay == 30 \* retry_max_delay: float = 30.0

None == "None"             \* Python's None, where a string may stand
NoTimeout == 0 - 1         \* Python's None, where an int may stand
NoAttempt == 0 - 1         \* _get_retry_delay has not been called yet

----------------------------------------------------------------------------
(* Python dictionaries are functions; d.get(k, default). *)

Get(d, k, default) == IF k \in DOMAIN d THEN d[k] ELSE default

(* The timeouts a ScrapeConfig may carry (timeout: Optional[int] = None):
   none, zero, one below and one above the client's. *)
ConfigTimeouts == {NoTimeout, 0, 30, 300}

(* The lists of n configs whose timeouts are drawn from T; the url names
   the request. *)
ConfigLists(n, T) ==
    { c \in [1..n -> [url : 1..n, timeout : T]] :
        \A i \in 1..n : c[i].url = i }

Tasks == 1..Len(configs)

(* The members of the batch: tasks = [scrape_with_semaphore(config) ...] *)
BatchTasks == Tasks \ direct

----------------------------------------------------------------------------
(* exceptions.py: the classes, as raised by _make_request. *)

ScrappeyErrorClasses ==
    {"ScrappeyError", "ScrappeyAuthError", "ScrappeyRequestError",
     "ScrappeyTimeoutError", "ScrapflyScrapeError"}

Exc(cls, message, code) == [cls |-> cls, message |-> message, code |-> code]

AuthFailure == Exc("ScrappeyAuthError", "Invalid API key", "CODE-0001")
TimeoutFailure == Exc("ScrappeyTimeoutError", "Request timed out", None)
RequestFailure == Exc("ScrappeyRequestError", "HTTP error", None)
OtherFailure == Exc("ValueError", "Expecting value", None)

NoError == Exc(None, None, None)

(* What one _make_request call can do: return the decoded body, or raise. *)
SuccessData == [solution |-> [response |-> "<html>", statusCode |-> 200]]

Returned(value) == [kind |-> "return", value |-> value]
Raised(e) == [kind |-> "raise", exc |-> e]
NoResult == [kind |-> "none"]

TransportResults ==
    {Returned(SuccessData), Raised(AuthFailure), Raised(TimeoutFailure),
     Raised(RequestFailure), Raised(OtherFailure)}

Str(e) == e.message

----------------------------------------------------------------------------
(* response.py: ScrapeApiResponse.__init__, the fields the outcome shows. *)

EmptyDict == << >>

(* A response that reads the page from solution["html"] alone. *)
ScrapeApiResponseHtmlOnly(scrappey_response, original_url) ==
    LET solution == Get(scrappey_response, "solution", EmptyDict)
    IN  [type |-> "ScrapeApiResponse",
         raw_response |-> scrappey_response,
         original_url |-> original_url,
         html |-> Get(solution, "html", ""),
         status_code |->
             Get(solution, "statusCode",
                 Get(scrappey_response, "status", 200))]

ScrapeApiResponse(scrappey_response, original_url) ==
    LET solution == Get(scrappey_response, "solution", EmptyDict)
    IN  [type |-> "ScrapeApiResponse",
         raw_response |-> scrappey_response,
         original_url |-> original_url,
         html |-> Get(solution, "html", Get(solution, "response", "")),
         status_code |->
             Get(solution, "statusCode",
                 Get(scrappey_response, "status", 200))]

(* scrappey.py 234-237: the value async_scrape returns once the loop ends. *)
EmptyResponseData(e) ==
    [solution |-> [html |-> "", status |-> 0], error |-> Str(e)]

(* scrappey.py 251-257: the element the batch wrapper builds from an error. *)
ScrapflyScrapeError(e, config) ==
    [type |-> "ScrapflyScrapeError",
     message |-> Str(e),
     code |-> e.code,
     api_response |-> [config |-> [url |-> config.url]]]

----------------------------------------------------------------------------
(* scrappey.py: the decisions of _make_request, async_scrape and the wrapper. *)

(* _make_request: request_timeout = timeout or self.timeout *)
RequestTimeout(timeout) ==
    IF timeout # NoTimeout /\ timeout # 0 THEN timeout ELSE DefaultTimeout

(* async_scrape line 210 calls self._make_request(payload): the timeout
   parameter keeps its default, None, whatever config.timeout is. *)
TimeoutArgument(config) == NoTimeout

(* async_scrape without its `except ScrappeyAuthError: raise` clause. *)
IsAuthErrorNever(e) == FALSE

(* except ScrappeyAuthError: raise *)
IsAuthError(e) == e.cls = "ScrappeyAuthError"

(* The subclasses of Exception a call can raise: the wrapper's own, httpx's,
   and any other (response.json() raises ValueError on a body that is not
   JSON). *)
ExceptionClasses == ScrappeyErrorClasses \cup {"HTTPError", "ValueError"}

(* A handler that names the wrapper's own classes only. *)
HandlerCatchesOwn(e) == e.cls \in ScrappeyErrorClasses

(* except (ScrappeyError, ScrappeyRequestError, ScrappeyTimeoutError,
           httpx.HTTPError, Exception) as e *)
HandlerCatches(e) == e.cls \in ExceptionClasses

(* The comparison off by one: `>` for `>=`. *)
RetriesExhaustedLate(a) == a > max_retries

(* if attempt >= self.max_retries: ... break *)
RetriesExhausted(a) == a >= max_retries

(* for attempt in range(self.max_retries + 1): is there a next value. *)
LoopHasNext(a) == a + 1 < max_retries + 1

(* A wrapper with no except clause. *)
WrapperCatchesNothing(e) == FALSE

(* scrape_with_semaphore: except ScrappeyError as e *)
WrapperCatches(e) == e.cls \in ScrappeyErrorClasses

(* A wrapper that does not wait for the semaphore. *)
CanAcquireAlways == TRUE

(* async with semaphore: the coroutine passes only while the value is > 0. *)
CanAcquire == semaphore > 0

(* scrape_with_semaphore around the result of async_scrape. *)
Wrap(sr, config) ==
    IF sr.kind = "raise" /\ WrapperCatches(sr.exc)
    THEN Returned(ScrapflyScrapeError(sr.exc, config))
    ELSE sr

(* What the observers record of a call's result. *)
FailedWithAuth(r) == r = Raised(AuthFailure)
FailedTransient(r) == r.kind = "raise" /\ r # Raised(AuthFailure)

InFlight == { i \in Tasks : pc[i] = "request" }

----------------------------------------------------------------------------
(* Texts as sequences of characters, so that lower() and `in` are computed. *)

(* str.lower(), on the letters the texts of the model use. *)
LowerChar(c) ==
    CASE c = "A" -> "a" [] c = "B" -> "b" [] c = "E" -> "e" [] c = "H" -> "h"
      [] c = "I" -> "i" [] c = "K" -> "k" [] c = "M" -> "m" [] c = "N" -> "n"
      [] c = "O" -> "o" [] c = "P" -> "p" [] c = "R" -> "r" [] c = "S" -> "s"
      [] c = "T" -> "t" [] c = "U" -> "u"
      [] OTHER -> c

Lower(text) == [k \in 1..Len(text) |-> LowerChar(text[k])]

(* sub in text *)
Contains(sub, text) ==
    \E k \in 0..(Len(text) - Len(sub)) :
        SubSeq(text, k + 1, k + Len(sub)) = sub

(* The characters of the messages the failures of a call carry. *)
Characters(message) ==
    CASE message = "Invalid API key" ->
           << "I", "n", "v", "a", "l", "i", "d", " ", "A", "P", "I", " ", "k", "e", "y" >>
      [] message = "Request timed out" ->
           << "R", "e", "q", "u", "e", "s", "t", " ", "t", "i", "m", "e", "d", " ", "o", "u", "t" >>
      [] message = "HTTP error" ->
           << "H", "T", "T", "P", " ", "e", "r", "r", "o", "r" >>
      [] message = "Expecting value" ->
           << "E", "x", "p", "e", "c", "t", "i", "n", "g", " ", "v", "a", "l", "u", "e" >>
      [] message = "Socket hang up" ->
           << "S", "o", "c", "k", "e", "t", " ", "h", "a", "n", "g", " ", "u", "p" >>
      [] message = "Navigation Timeout" ->
           << "N", "a", "v", "i", "g", "a", "t", "i", "o", "n", " ", "T", "i", "m", "e", "o", "u", "t" >>

RETRYABLE_ERRORS ==
    {<< "b", "r", "o", "w", "s", "e", "r", " ", "c", "l", "o", "s", "e", "d" >>,
     << "b", "r", "o", "w", "s", "e", "r", " ", "d", "i", "s", "c", "o", "n", "n", "e", "c", "t", "e", "d" >>,
     << "t", "a", "r", "g", "e", "t", " ", "c", "l", "o", "s", "e", "d" >>,
     << "p", "a", "g", "e", " ", "c", "l", "o", "s", "e", "d" >>,
     << "n", "a", "v", "i", "g", "a", "t", "i", "o", "n", " ", "f", "a", "i", "l", "e", "d" >>,
     << "n", "e", "t", ":", ":", "e", "r", "r" >>,
     << "t", "i", "m", "e", "o", "u", "t" >>,
     << "e", "c", "o", "n", "n", "r", "e", "s", "e", "t" >>,
     << "e", "c", "o", "n", "n", "r", "e", "f", "u", "s", "e", "d" >>,
     << "s", "o", "c", "k", "e", "t", " ", "h", "a", "n", "g", " ", "u", "p" >>,
     << "n", "e", "t", "w", "o", "r", "k", " ", "e", "r", "r", "o", "r" >>,
     << "p", "r", "o", "t", "o", "c", "o", "l", " ", "e", "r", "r", "o", "r" >>,
     << "s", "e", "s", "s", "i", "o", "n", " ", "n", "o", "t", " ", "f", "o", "u", "n", "d" >>,
     << "c", "o", "n", "t", "e", "x", "t", " ", "d", "e", "s", "t", "r", "o", "y", "e", "d" >>}

(* _is_retryable_error(str(e)) *)
IsRetryableError(e) ==
    \E err \in RETRYABLE_ERRORS : Contains(err, Lower(Characters(Str(e))))

(* A handler that retries only what _is_retryable_error accepts. *)
RetryableIfListed(e) == IsRetryableError(e)

(* lines 215-230: the handler asks nothing about the error it caught;
   _is_retryable_error is called nowhere. *)
Retryable(e) == TRUE

----------------------------------------------------------------------------
(* config.py: ScrapeConfig and to_scrappey_payload.  A ScrapeConfig is the
   record of the fields its constructor was given; the others have the
   defaults of the dataclass.  An Optional dict or list that is None is the
   empty one and rendering_wait = None is NoWait: each is as false as None
   in every test the translation makes. *)

NoWait == NoTimeout

Defaults ==
    [country |-> "US", headers |-> EmptyDict, method |-> "GET",
     body |-> None, data |-> EmptyDict, cookies |-> EmptyDict,
     wait_for_selector |-> None, js |-> None, js_scenario |-> << >>,
     auto_scroll |-> FALSE, session |-> None, timeout |-> NoTimeout,
     rendering_wait |-> NoWait, auto_solve_captcha |-> TRUE,
     extra |-> EmptyDict]

Field(config, name) == Get(config, name, Defaults[name])

(* bool(x) of a str or None, of a dict, of a list, of an int or None. *)
TruthyStr(x) == x # None /\ x # ""

TruthyDict(d) == DOMAIN d # {}

TruthyList(l) == Len(l) > 0

TruthyInt(n) == n # NoWait /\ n # 0

(* str.lower() of the method names, and f"request.{method_lower}" in its
   two parts. *)
MethodLower(m) ==
    CASE m = "GET" -> "get" [] m = "POST" -> "post" [] m = "Post" -> "post"
      [] OTHER -> m

Cmd(config) == << "request.", MethodLower(Field(config, "method")) >>

(* str.upper() of the country codes, and some rows of country_map. *)
CodeUpper(code) ==
    CASE code = "us" -> "US" [] code = "de" -> "DE" [] code = "gb" -> "GB"
      [] OTHER -> code

MapCountryCode(code) ==
    LET up == CodeUpper(code)
    IN  CASE up = "US" -> "UnitedStates"
          [] up = "GB" -> "UnitedKingdom"
          [] up = "UK" -> "UnitedKingdom"
          [] up = "DE" -> "Germany"
          [] OTHER -> code

(* A number that may be a float: rendering_wait / 1000 is num / den. *)
Num(n) == [num |-> n, den |-> 1]

SelectorTimeout == 30000

(* "; ".join(f"{k}={v}" ...), as the set of its k=v parts. *)
CookieStr(cookies) == { << k, "=", cookies[k] >> : k \in DOMAIN cookies }

(* _convert_js_scenario_action *)
ConvertJsScenarioAction(action) ==
    IF "wait_for_selector" \in DOMAIN action
    THEN [type |-> "wait_for_selector",
          cssSelector |-> Get(action.wait_for_selector, "selector", None),
          timeout |-> Get(action.wait_for_selector, "timeout",
                          SelectorTimeout)]
    ELSE IF "click" \in DOMAIN action
    THEN IF Get(action.click, "ignore_if_not_visible", FALSE)
         THEN [type |-> "click",
               cssSelector |-> Get(action.click, "selector", None),
               ignoreErrors |-> TRUE]
         ELSE [type |-> "click",
               cssSelector |-> Get(action.click, "selector", None)]
    ELSE IF "wait" \in DOMAIN action
    THEN [type |-> "wait", wait |-> action.wait]
    ELSE IF "scroll" \in DOMAIN action
    THEN IF TruthyStr(Get(action.scroll, "selector", None))
         THEN [type |-> "scroll", cssSelector |-> action.scroll.selector]
         ELSE [type |-> "scroll"]
    ELSE IF "execute_js" \in DOMAIN action \/ "js" \in DOMAIN action
    THEN [type |-> "execute_js",
          code |-> Get(action, "execute_js", Get(action, "js", ""))]
    ELSE IF "type" \in DOMAIN action /\ "selector" \in DOMAIN action
    THEN [type |-> "type", cssSelector |-> action.selector,
          text |-> Get(action, "text", "")]
    ELSE action

(* lines 76-85, 87-89, 91-95, 97-100, 102-108: the entries each field adds
   to browser_actions. *)
SelectorWaitActions(config) ==
    IF ~TruthyStr(Field(config, "wait_for_selector")) THEN << >>
    ELSE IF Get(Field(config, "extra"), "waitForSelectorIgnoreErrors", FALSE)
    THEN << [type |-> "wait_for_selector",
             cssSelector |-> Field(config, "wait_for_selector"),
             timeout |-> SelectorTimeout, ignoreErrors |-> TRUE] >>
    ELSE << [type |-> "wait_for_selector",
             cssSelector |-> Field(config, "wait_for_selector"),
             timeout |-> SelectorTimeout] >>

ScenarioActions(config) ==
    [k \in 1..Len(Field(config, "js_scenario")) |->
        ConvertJsScenarioAction(Field(config, "js_scenario")[k])]

JsActions(config) ==
    IF TruthyStr(Field(config, "js"))
    THEN << [type |-> "execute_js", code |-> Field(config, "js")] >>
    ELSE << >>

ScrollActions(config) ==
    IF Field(config, "auto_scroll") THEN << [type |-> "scroll"] >> ELSE << >>

WaitSeconds(rendering_wait) ==
    IF rendering_wait > 100
    THEN [num |-> rendering_wait, den |-> 1000]
    ELSE Num(rendering_wait)

RenderingWaitActions(config) ==
    IF TruthyInt(Field(config, "rendering_wait"))
    THEN << [type |-> "wait",
             wait |-> WaitSeconds(Field(config, "rendering_wait"))] >>
    ELSE << >>

(* A translation that appends the standalone script before the scenario. *)
BrowserActionsJsFirst(config) ==
    SelectorWaitActions(config) \o JsActions(config)
      \o ScenarioActions(config) \o ScrollActions(config)
      \o RenderingWaitActions(config)

(* lines 74-108: browser_actions, in the order of the appends. *)
BrowserActions(config) ==
    SelectorWaitActions(config) \o ScenarioActions(config)
      \o JsActions(config) \o ScrollActions(config)
      \o RenderingWaitActions(config)

(* lines 59-66.  payload["customHeaders"] = self.headers stores the dict of
   the config itself, not a copy: the payload then shares it, and the Cookie
   written through the payload is written into config.headers. *)
SharesHeaders(config) == TruthyDict(Field(config, "headers"))

WritesCookie(config) == TruthyDict(Field(config, "cookies"))

CustomHeaders(config) ==
    IF SharesHeaders(config)
    THEN "customHeaders" :> [shared |-> TRUE]
    ELSE IF WritesCookie(config)
    THEN "customHeaders" :>
            [shared |-> FALSE,
             value |-> "Cookie" :> CookieStr(Field(config, "cookies"))]
    ELSE EmptyDict

(* The ScrapeConfig after to_scrappey_payload has run on it. *)
ConfigAfter(config) ==
    IF SharesHeaders(config) /\ WritesCookie(config)
    THEN [config EXCEPT
            !.headers = ("Cookie" :> CookieStr(config.cookies)) @@ @]
    ELSE config

(* lines 51-54 *)
Session(config, sid) ==
    IF TruthyStr(sid) THEN "session" :> sid
    ELSE IF TruthyStr(Field(config, "session"))
    THEN "session" :> Field(config, "session")
    ELSE EmptyDict

(* lines 56-57, 68-72, 110-111, 114-115 *)
ProxyCountry(config) ==
    IF TruthyStr(Field(config, "country"))
    THEN "proxyCountry" :> MapCountryCode(Field(config, "country"))
    ELSE EmptyDict

PostData(config) ==
    IF TruthyDict(Field(config, "data"))
    THEN "postData" :> Field(config, "data")
    ELSE IF TruthyStr(Field(config, "body"))
    THEN "postData" :> Field(config, "body")
    ELSE EmptyDict

BrowserActionsKey(config) ==
    IF TruthyList(BrowserActions(config))
    THEN "browserActions" :> BrowserActions(config)
    ELSE EmptyDict

SolveCaptchas(config) ==
    IF Field(config, "auto_solve_captcha")
    THEN "automaticallySolveCaptchas" :> TRUE
    ELSE EmptyDict

(* to_scrappey_payload(session_id): the dict it returns.  In f @@ g the keys
   of f win: payload.update(self.extra) comes last and wins over all. *)
ToScrappeyPayload(config, sid) ==
    Field(config, "extra")
      @@ SolveCaptchas(config)
      @@ BrowserActionsKey(config)
      @@ PostData(config)
      @@ CustomHeaders(config)
      @@ ProxyCountry(config)
      @@ Session(config, sid)
      @@ [cmd |-> Cmd(config), url |-> config.url, premiumProxy |-> TRUE]

(* What a reader of the payload finds in it while the config is c: the
   shared headers are those of the config. *)
PayloadValue(p, c) ==
    IF "customHeaders" \notin DOMAIN p THEN p
    ELSE IF p.customHeaders.shared
    THEN [p EXCEPT !.customHeaders = Field(c, "headers")]
    ELSE [p EXCEPT !.customHeaders = p.customHeaders.value]

----------------------------------------------------------------------------
(* The state after ScrappeyClient(...) and the call concurrent_scrape(configs):
   an async generator runs nothing until it is first iterated. *)

InitTasks(n) ==
    /\ pc = [i \in 1..n |-> "created"]
    /\ attempt = [i \in 1..n |-> 0]
    /\ last_error = [i \in 1..n |-> NoError]
    /\ used_timeout = [i \in 1..n |-> NoTimeout]
    /\ scrape_result = [i \in 1..n |-> NoResult]
    /\ task_result = [i \in 1..n |-> NoResult]
    /\ calls = [i \in 1..n |-> 0]
    /\ sleeps = [i \in 1..n |-> 0]
    /\ only_transient = [i \in 1..n |-> TRUE]
    /\ only_auth = [i \in 1..n |-> TRUE]
    /\ auth_failed = [i \in 1..n |-> FALSE]
    /\ payload = [i \in 1..n |-> EmptyDict]
    /\ sent = [i \in 1..n |-> << >>]

InitBatch(n) ==
    /\ configs \in ConfigLists(n, {NoTimeout})
    /\ direct = {}
    /\ session_id = None
    /\ iter = "idle"
    /\ semaphore = 0
    /\ holding = {}
    /\ completed = << >>
    /\ yielded = << >>
    /\ InitTasks(n)

InitDelayIdle ==
    /\ delay_attempt = NoAttempt
    /\ delay_draw = 0
    /\ delay_scaled = 0

(* The client was constructed with a key and with max_concurrency itself. *)
InitCtorDone ==
    /\ ctor_key = "key"
    /\ ctor_arg = max_concurrency
    /\ ctor_state = "ok"

(* _make_request and to_scrappey_payload have not been called. *)
InitTransportIdle ==
    /\ http_outcome = [kind |-> "none"]
    /\ transport_result = NoResult

InitTranslateIdle ==
    /\ tr_original = [url |-> 0]
    /\ tr_config = [url |-> 0]
    /\ tr_session_id = None
    /\ tr_payloads = << >>

(* The parts of the state a specification does not exercise. *)
InitRest ==
    /\ retry_delay = DefaultRetryDelay
    /\ retry_max_delay = DefaultRetryMaxDelay
    /\ InitDelayIdle
    /\ InitCtorDone
    /\ InitTransportIdle
    /\ InitTranslateIdle

Init ==
    /\ max_concurrency \in 1..MaxConc
    /\ max_retries \in 0..MaxRetries
    /\ \E n \in 0..MaxBatch : InitBatch(n)
    /\ InitRest

----------------------------------------------------------------------------
(* concurrent_scrape, first iteration: the semaphore is made, the list of
   coroutines is built and asyncio.as_completed schedules each as a task.
   An empty list ends the `for` at once. *)
Begin ==
    /\ iter = "idle"
    /\ semaphore' = max_concurrency
    /\ pc' = [i \in Tasks |-> IF i \in direct THEN pc[i] ELSE "pending"]
    /\ iter' = IF BatchTasks = {} THEN "exhausted" ELSE "running"
    /\ UNCHANGED << max_concurrency, max_retries, configs, direct, session_id,
                    holding, attempt,
                    last_error, used_timeout, scrape_result, task_result,
                    completed, yielded, calls, sleeps, only_transient,
                    only_auth, auth_failed, payload, sent >>

(* One pass of the try block up to the await of the HTTP call:
   response = await self._make_request(payload) *)
StartAttempt(i, a, p) ==
    /\ pc' = [pc EXCEPT ![i] = "request"]
    /\ sent' = [sent EXCEPT ![i] = Append(@, p)]
    /\ attempt' = [attempt EXCEPT ![i] = a]
    /\ calls' = [calls EXCEPT ![i] = @ + 1]
    /\ used_timeout' =
           [used_timeout EXCEPT ![i] = RequestTimeout(TimeoutArgument(configs[i]))]

(* A wrapper that leaves `async with semaphore` without giving the slot
   back. *)
ReleaseNever(value) == value

(* Semaphore.release(), at the end of `async with semaphore`. *)
Release(value) == value + 1

(* async_scrape ends with sr (a return or a raise).  Called by
   scrape_with_semaphore, that wraps it, leaves `async with semaphore`, and
   the task is complete; called directly, sr is what the caller gets. *)
Finish(i, sr) ==
    /\ scrape_result' = [scrape_result EXCEPT ![i] = sr]
    /\ pc' = [pc EXCEPT ![i] = "done"]
    /\ IF i \in direct
       THEN UNCHANGED << task_result, semaphore, holding, completed >>
       ELSE /\ task_result' = [task_result EXCEPT ![i] = Wrap(sr, configs[i])]
            /\ semaphore' = Release(semaphore)
            /\ holding' = holding \ {i}
            /\ completed' = Append(completed, i)

(* scrape_with_semaphore enters `async with semaphore` and calls
   async_scrape, which translates the config (line 205) and runs to its
   first _make_request.  The configs of a batch carry no headers, so the
   translation leaves them as they are. *)
Acquire(i) ==
    /\ i \in Tasks
    /\ pc[i] = "pending"
    /\ CanAcquire
    /\ semaphore' = semaphore - 1
    /\ holding' = holding \cup {i}
    /\ payload' = [payload EXCEPT
                     ![i] = ToScrappeyPayload(configs[i], session_id)]
    /\ StartAttempt(i, 0, ToScrappeyPayload(configs[i], session_id))
    /\ UNCHANGED << max_concurrency, max_retries, configs, direct, session_id,
                    iter, last_error,
                    scrape_result, task_result, completed, yielded, sleeps,
                    only_transient,
                    only_auth, auth_failed >>

(* A caller awaits client.async_scrape(config) itself: no semaphore; the
   coroutine translates the config (line 205) and runs to its first
   _make_request. *)
Call(i) ==
    /\ i \in direct
    /\ pc[i] = "created"
    /\ payload' = [payload EXCEPT
                     ![i] = ToScrappeyPayload(configs[i], session_id)]
    /\ StartAttempt(i, 0, ToScrappeyPayload(configs[i], session_id))
    /\ UNCHANGED << max_concurrency, max_retries, configs, direct, session_id,
                    iter, semaphore,
                    holding, last_error, scrape_result, task_result,
                    completed, yielded, sleeps, only_transient,
                    only_auth, auth_failed >>

(* The HTTP call of task i ends with r; async_scrape handles it: lines
   211-230, and 232-237 after the break. *)
TransportReturn(i, r) ==
    /\ i \in Tasks
    /\ pc[i] = "request"
    /\ only_transient' =
           [only_transient EXCEPT ![i] = @ /\ FailedTransient(r)]
    /\ only_auth' = [only_auth EXCEPT ![i] = @ /\ FailedWithAuth(r)]
    /\ auth_failed' = [auth_failed EXCEPT ![i] = FailedWithAuth(r)]
    /\ IF r.kind = "return"
       THEN /\ Finish(i, Returned(ScrapeApiResponse(r.value, configs[i].url)))
            /\ UNCHANGED << last_error, sleeps >>
       ELSE IF IsAuthError(r.exc) \/ ~HandlerCatches(r.exc)
       THEN /\ Finish(i, Raised(r.exc))
            /\ UNCHANGED << last_error, sleeps >>
       ELSE /\ last_error' = [last_error EXCEPT ![i] = r.exc]
            /\ IF RetriesExhausted(attempt[i]) \/ ~Retryable(r.exc)
               THEN /\ Finish(i, Returned(ScrapeApiResponse(
                                    EmptyResponseData(r.exc), configs[i].url)))
                    /\ UNCHANGED sleeps
               ELSE /\ pc' = [pc EXCEPT ![i] = "sleep"]
                    /\ sleeps' = [sleeps EXCEPT ![i] = @ + 1]
                    /\ UNCHANGED << semaphore, holding, scrape_result,
                                    task_result, completed >>
    /\ UNCHANGED << max_concurrency, max_retries, configs, direct, session_id,
                    iter, attempt,
                    used_timeout, yielded, calls, payload, sent >>

(* await asyncio.sleep(delay) ends: the loop takes its next value, or, with
   none left, falls through to the lines after it. *)
SleepEnd(i) ==
    /\ i \in Tasks
    /\ pc[i] = "sleep"
    /\ IF LoopHasNext(attempt[i])
       THEN /\ StartAttempt(i, attempt[i] + 1, payload[i])
            /\ UNCHANGED << semaphore, holding, scrape_result, task_result,
                            completed >>
       ELSE /\ Finish(i, Returned(ScrapeApiResponse(
                            EmptyResponseData(last_error[i]), configs[i].url)))
            /\ UNCHANGED << attempt, calls, used_timeout, sent >>
    /\ UNCHANGED << max_concurrency, max_retries, configs, direct, session_id,
                    iter, last_error,
                    yielded, sleeps, only_transient,
                    only_auth, auth_failed, payload >>

(* The request an element of the sequence belongs to: response.request.url
   of a ScrapeApiResponse, api_response["config"]["url"] of an error. *)
OutcomeUrl(o) ==
    IF o.type = "ScrapeApiResponse" THEN o.original_url
    ELSE o.api_response.config.url

(* Awaiting the tasks as `for t in tasks: await t` would: of the finished
   tasks not yet handed over, the first of the list. *)
NextInListOrder ==
    LET taken == { OutcomeUrl(yielded[k]) : k \in 1..Len(yielded) }
        ready == { i \in Tasks : /\ \E k \in 1..Len(completed) : completed[k] = i
                                 /\ configs[i].url \notin taken }
    IN  CHOOSE i \in ready : \A j \in ready : i <= j

(* asyncio.as_completed(tasks): its k-th future resolves to the k-th task to
   finish. *)
NextCompleted == completed[Len(yielded) + 1]

(* for coro in asyncio.as_completed(tasks): result = await coro; yield result
   The next task in completion order is awaited: its exception is raised out
   of the generator, its value is handed to the consumer; after the last of
   the list the `for` ends. *)
Yield ==
    /\ iter = "running"
    /\ Len(yielded) < Len(completed)
    /\ LET res == task_result[NextCompleted]
       IN  IF res.kind = "raise"
           THEN /\ iter' = "raised"
                /\ UNCHANGED yielded
           ELSE /\ yielded' = Append(yielded, res.value)
                /\ iter' = IF Len(yielded) + 1 = Cardinality(BatchTasks)
                           THEN "exhausted" ELSE "running"
    /\ UNCHANGED << max_concurrency, max_retries, configs, direct, session_id,
                    semaphore, holding,
                    pc, attempt, last_error, used_timeout, scrape_result,
                    task_result, completed, calls, sleeps, only_transient,
                    only_auth, auth_failed, payload, sent >>

Next ==
    \/ Begin /\ UNCHANGED restVars
    \/ \E i \in Tasks : Acquire(i) /\ UNCHANGED restVars
    \/ \E i \in Tasks : \E r \in TransportResults :
          TransportReturn(i, r) /\ UNCHANGED restVars
    \/ \E i \in Tasks : SleepEnd(i) /\ UNCHANGED restVars
    \/ Yield /\ UNCHANGED restVars

Spec == Init /\ [][Next]_vars

(* The batch on an event loop that never idles while a step is possible:
   the consumer keeps iterating, a task that can run is run, every HTTP
   call and every sleep ends.  Nothing is assumed about which of the
   possible steps comes first.  A call ends in one of the three ways
   async_scrape tells apart: a result, an auth error, another error. *)
FairResults ==
    {Returned(SuccessData), Raised(AuthFailure), Raised(TimeoutFailure)}

NextFair ==
    \/ Begin /\ UNCHANGED restVars
    \/ \E i \in Tasks : Acquire(i) /\ UNCHANGED restVars
    \/ \E i \in Tasks : \E r \in FairResults :
          TransportReturn(i, r) /\ UNCHANGED restVars
    \/ \E i \in Tasks : SleepEnd(i) /\ UNCHANGED restVars
    \/ Yield /\ UNCHANGED restVars

Fairness == WF_vars(NextFair)

SpecFair == Init /\ [][NextFair]_vars /\ Fairness

----------------------------------------------------------------------------
(* async_scrape awaited directly, one call per config, each config with any
   of the timeouts. *)

MaxDirect == 1       \* direct calls running side by side

InitScrape ==
    /\ max_concurrency \in 1..MaxConc
    /\ max_retries \in 0..MaxRetries + 1
    /\ \E n \in 1..MaxDirect :
          /\ configs \in ConfigLists(n, ConfigTimeouts)
          /\ direct = 1..n
          /\ InitTasks(n)
    /\ session_id = None
    /\ iter = "direct"
    /\ semaphore = 0
    /\ holding = {}
    /\ completed = << >>
    /\ yielded = << >>
    /\ InitRest

NextScrape ==
    \/ \E i \in Tasks : Call(i) /\ UNCHANGED restVars
    \/ \E i \in Tasks : \E r \in TransportResults :
          TransportReturn(i, r) /\ UNCHANGED restVars
    \/ \E i \in Tasks : SleepEnd(i) /\ UNCHANGED restVars

SpecScrape == InitScrape /\ [][NextScrape]_vars

----------------------------------------------------------------------------
(* A batch whose consumer may leave the `async for` early.  Nothing in
   concurrent_scrape reacts to that: the tasks asyncio.as_completed
   scheduled stay on the event loop, and while the loop runs they go on
   acquiring the semaphore, calling and retrying. *)

(* The consumer breaks out of the loop body, after an element. *)
Abandon ==
    /\ iter = "running"
    /\ Len(yielded) >= 1
    /\ iter' = "abandoned"
    /\ UNCHANGED << max_concurrency, max_retries, configs, direct, session_id,
                    semaphore, holding, pc, attempt, last_error, used_timeout,
                    scrape_result, task_result, completed, yielded, calls,
                    sleeps, only_transient, only_auth, auth_failed, payload,
                    sent >>

NextAbandon ==
    \/ Next
    \/ Abandon /\ UNCHANGED restVars

SpecAbandon == Init /\ [][NextAbandon]_vars

----------------------------------------------------------------------------
(* One client used for a batch and for direct async_scrape calls at the same
   time: some of the configs go to concurrent_scrape, the others are each
   awaited through async_scrape. *)

InitClient ==
    /\ max_concurrency \in 1..MaxConc
    /\ max_retries \in 0..MaxRetries
    /\ \E n \in 1..MaxBatch :
          /\ configs \in ConfigLists(n, {NoTimeout})
          /\ direct \in (SUBSET (1..n)) \ {{}}
          /\ InitTasks(n)
    /\ session_id = None
    /\ iter = "idle"
    /\ semaphore = 0
    /\ holding = {}
    /\ completed = << >>
    /\ yielded = << >>
    /\ InitRest

NextClient ==
    \/ Next
    \/ \E i \in Tasks : Call(i) /\ UNCHANGED restVars

SpecClient == InitClient /\ [][NextClient]_vars

----------------------------------------------------------------------------
(* _get_retry_delay, for every retry_delay, retry_max_delay, attempt and
   draw of random.random().  Delays are whole units; the jitter factor
   0.25 * (2 * random.random() - 1), with random.random() = k / JitterSteps,
   is (2 * k - JitterSteps) / DelayScale, so the model holds the returned
   delay times DelayScale, exactly. *)

DelayScale == 4 * JitterSteps

Min(a, b) == IF a <= b THEN a ELSE b

RECURSIVE Pow2(_)
Pow2(n) == IF n <= 0 THEN 1 ELSE 2 * Pow2(n - 1)

(* delay = self.retry_delay * (2 ** attempt) *)
Backoff(a) == retry_delay * Pow2(a)

(* The delay without its cap. *)
Uncapped(d) == d

(* delay = min(delay, self.retry_max_delay) *)
Capped(d) == Min(d, retry_max_delay)

(* jitter = delay * 0.25 * (2 * random.random() - 1), times DelayScale *)
Jitter(d, k) == d * (2 * k - JitterSteps)

(* return delay + jitter, times DelayScale *)
GetRetryDelay(a, k) ==
    LET delay == Capped(Backoff(a))
    IN  delay * DelayScale + Jitter(delay, k)

(* random.random() is in [0.0, 1.0) *)
Draws == 0..JitterSteps - 1

InitDelay ==
    /\ max_concurrency = 1
    /\ max_retries = 0
    /\ InitBatch(0)
    /\ retry_delay \in 0..MaxBase
    /\ retry_max_delay \in 0..MaxCap
    /\ InitDelayIdle
    /\ InitCtorDone
    /\ InitTransportIdle
    /\ InitTranslateIdle

CallGetRetryDelay(a, k) ==
    /\ delay_attempt' = a
    /\ delay_draw' = k
    /\ delay_scaled' = GetRetryDelay(a, k)
    /\ UNCHANGED << retry_delay, retry_max_delay >>
    /\ UNCHANGED << batchVars, ctorVars, transportVars, translateVars >>

NextDelay ==
    \E a \in 0..MaxAttempt : \E k \in Draws : CallGetRetryDelay(a, k)

SpecDelay == InitDelay /\ [][NextDelay]_vars

----------------------------------------------------------------------------
(* ScrappeyClient.__init__, for every max_concurrency argument around the
   range 1..MAX_ALLOWED_CONCURRENCY and far above it, with and without an
   API key. *)

MAX_ALLOWED_CONCURRENCY == 100

ArgBelow == 3        \* arguments from 1 - ArgBelow
ArgAbove == 3        \* arguments up to MAX_ALLOWED_CONCURRENCY + ArgAbove
FarAbove == 500      \* and one far above the range

ConcurrencyArguments ==
    (1 - ArgBelow)..(MAX_ALLOWED_CONCURRENCY + ArgAbove) \cup {FarAbove}

(* key or os.environ.get("SCRAPPEY_KEY"): a usable key, or nothing. *)
ApiKeys == {"", "key"}

(* A constructor that forgets the lower bound. *)
ClampConcurrencyAbove(n) ==
    IF n > MAX_ALLOWED_CONCURRENCY THEN MAX_ALLOWED_CONCURRENCY ELSE n

(* if max_concurrency < 1: ... elif max_concurrency > MAX_ALLOWED_CONCURRENCY *)
ClampConcurrency(n) ==
    IF n < 1 THEN 1
    ELSE IF n > MAX_ALLOWED_CONCURRENCY THEN MAX_ALLOWED_CONCURRENCY
    ELSE n

(* No client yet. *)
InitCtor ==
    /\ max_concurrency = 0
    /\ max_retries = 0
    /\ InitBatch(0)
    /\ retry_delay = DefaultRetryDelay
    /\ retry_max_delay = DefaultRetryMaxDelay
    /\ InitDelayIdle
    /\ InitTransportIdle
    /\ InitTranslateIdle
    /\ ctor_key = ""
    /\ ctor_arg = 0
    /\ ctor_state = "none"

(* ScrappeyClient(key, max_concurrency=n): raises without a key, else
   clamps and stores. *)
Construct(key, n) ==
    /\ ctor_state = "none"
    /\ ctor_key' = key
    /\ ctor_arg' = n
    /\ IF key = ""
       THEN /\ ctor_state' = "raised"
            /\ UNCHANGED max_concurrency
       ELSE /\ ctor_state' = "ok"
            /\ max_concurrency' = ClampConcurrency(n)
    /\ UNCHANGED << max_retries, configs, direct, session_id, iter,
                    semaphore, holding, pc,
                    attempt, last_error, used_timeout, scrape_result,
                    task_result, completed, yielded, calls, sleeps,
                    only_transient, only_auth, auth_failed, payload, sent >>
    /\ UNCHANGED << delayVars, transportVars, translateVars >>

NextCtor ==
    \E key \in ApiKeys : \E n \in ConcurrencyArguments : Construct(key, n)

SpecCtor == InitCtor /\ [][NextCtor]_vars

----------------------------------------------------------------------------
(* ScrappeyClient._make_request, from what client.post(...) does to what the
   method returns or raises. *)

Timeout == << "t", "i", "m", "e", "o", "u", "t" >>

(* Texts of the "error" key of a body. *)
MsgTimeoutLower == << "t", "i", "m", "e", "o", "u", "t" >>
MsgTimeoutUpper == << "T", "I", "M", "E", "O", "U", "T" >>
MsgTimeoutMixed == << "R", "e", "a", "d", " ", "T", "i", "m", "e", "O", "u", "t", "." >>
MsgTimeOutApart == << "t", "i", "m", "e", " ", "o", "u", "t" >>
MsgBlocked == << "B", "l", "o", "c", "k", "e", "d" >>
MsgBadKey == << "B", "a", "d", " ", "k", "e", "y" >>
MsgBadKeyTimeout == << "B", "a", "d", " ", "k", "e", "y", ",", " ", "t", "i", "m", "e", "o", "u", "t" >>

ErrorTexts ==
    {MsgTimeoutLower, MsgTimeoutUpper, MsgTimeoutMixed, MsgTimeOutApart,
     MsgBlocked, MsgBadKey, MsgBadKeyTimeout}

(* Values of the "code" key of a body: the invalid-credentials code and
   another. *)
ErrorCodes == {"CODE-0001", "CODE-0010"}

(* The decoded bodies: one without an "error" key, and the bodies with one,
   with and without a "code". *)
Bodies ==
    {SuccessData}
      \cup { [error |-> t] : t \in ErrorTexts }
      \cup { [error |-> t, code |-> c] : t \in ErrorTexts, c \in ErrorCodes }

HttpStatuses == {200, 403, 500}

(* client.post(...) raises httpx.TimeoutException, raises another
   httpx.HTTPError, or returns a response whose body is JSON or is not. *)
HttpOutcomes ==
    {[kind |-> "TimeoutException"], [kind |-> "HTTPError"]}
      \cup { [kind |-> "response", status |-> st, json |-> FALSE] :
               st \in HttpStatuses }
      \cup { [kind |-> "response", status |-> st, json |-> TRUE, data |-> d] :
               st \in HttpStatuses, d \in Bodies }

(* A classification that looks for "timeout" before it looks at the code. *)
ClassifyTimeoutFirst(data) ==
    LET error_code == Get(data, "code", "UNKNOWN")
        error_message == Get(data, "error", << "Unknown error" >>)
    IN  IF Contains(Timeout, Lower(error_message))
        THEN Exc("ScrappeyTimeoutError", error_message, error_code)
        ELSE IF error_code = "CODE-0001"
        THEN Exc("ScrappeyAuthError", error_message, error_code)
        ELSE Exc("ScrappeyRequestError", error_message, error_code)

(* lines 170-178: the exception raised for a body with an "error" key. *)
Classify(data) ==
    LET error_code == Get(data, "code", "UNKNOWN")
        error_message == Get(data, "error", << "Unknown error" >>)
    IN  IF error_code = "CODE-0001"
        THEN Exc("ScrappeyAuthError", error_message, error_code)
        ELSE IF Contains(Timeout, Lower(error_message))
        THEN Exc("ScrappeyTimeoutError", error_message, error_code)
        ELSE Exc("ScrappeyRequestError", error_message, error_code)

(* lines 148-185.  response.status_code is never read; response.json()
   raises a ValueError, which neither except clause names, on a body that
   is not JSON. *)
MakeRequest(h) ==
    IF h.kind = "TimeoutException"
    THEN Raised(Exc("ScrappeyTimeoutError", << "Request timed out: " >>, None))
    ELSE IF h.kind = "HTTPError"
    THEN Raised(Exc("ScrappeyRequestError", << "HTTP error: " >>, None))
    ELSE IF ~h.json
    THEN Raised(Exc("ValueError", << "Expecting value" >>, None))
    ELSE IF "error" \in DOMAIN h.data
    THEN Raised(Classify(h.data))
    ELSE Returned(h.data)

InitTransport ==
    /\ max_concurrency = 1
    /\ max_retries = 0
    /\ InitBatch(0)
    /\ retry_delay = DefaultRetryDelay
    /\ retry_max_delay = DefaultRetryMaxDelay
    /\ InitDelayIdle
    /\ InitCtorDone
    /\ InitTranslateIdle
    /\ http_outcome \in HttpOutcomes
    /\ transport_result = NoResult

(* The pending HTTP call ends and _make_request returns or raises. *)
Send ==
    /\ transport_result = NoResult
    /\ transport_result' = MakeRequest(http_outcome)
    /\ UNCHANGED http_outcome
    /\ UNCHANGED << batchVars, delayVars, ctorVars, translateVars >>

NextTransport == Send

SpecTransport == InitTransport /\ [][NextTransport]_vars

----------------------------------------------------------------------------
(* ScrapeConfig.to_scrappey_payload called on one config, more than once. *)

MaxTranslations == 2 \* calls of to_scrappey_payload on the config

ClickAction == [click |-> [selector |-> "#next"]]

WaitAction == [wait |-> Num(500)]

Scenarios ==
    {<< >>, << ClickAction >>, << ClickAction, WaitAction >>,
     << WaitAction, ClickAction >>}

HeaderDicts == {EmptyDict, [Accept |-> "text/html"]}

CookieDicts == {EmptyDict, [sid |-> "abc"]}

ExtraDicts ==
    {EmptyDict, [waitForSelectorIgnoreErrors |-> TRUE],
     [session |-> "extra-session"]}

SessionIds == {None, "", "override"}

TranslateConfigs ==
    [url : {1}, method : {"GET", "Post"}, country : {"US", "de"},
     session : {None, "cfg-session"}, headers : HeaderDicts,
     cookies : CookieDicts, body : {None, "a=b"},
     wait_for_selector : {None, "#main"}, js_scenario : Scenarios,
     js : {None, "go()"}, auto_scroll : BOOLEAN,
     rendering_wait : {NoWait, 100, 2000}, extra : ExtraDicts]

InitTranslate ==
    /\ max_concurrency = 1
    /\ max_retries = 0
    /\ InitBatch(0)
    /\ retry_delay = DefaultRetryDelay
    /\ retry_max_delay = DefaultRetryMaxDelay
    /\ InitDelayIdle
    /\ InitCtorDone
    /\ InitTransportIdle
    /\ tr_original \in TranslateConfigs
    /\ tr_config = tr_original
    /\ tr_session_id \in {None, "override"}
    /\ tr_payloads = << >>

(* payload = config.to_scrappey_payload(session_id) *)
Translate ==
    /\ Len(tr_payloads) < MaxTranslations
    /\ tr_payloads' =
          Append(tr_payloads, ToScrappeyPayload(tr_config, tr_session_id))
    /\ tr_config' = ConfigAfter(tr_config)
    /\ UNCHANGED << tr_original, tr_session_id >>
    /\ UNCHANGED << batchVars, delayVars, ctorVars, transportVars >>

NextTranslate == Translate

SpecTranslate == InitTranslate /\ [][NextTranslate]_vars

----------------------------------------------------------------------------
(* async_scrape(config, session_id) awaited directly, the config with or
   without a session and extra parameters, the call with or without a
   session_id. *)

SessionConfigs ==
    [url : {1}, timeout : {NoTimeout}, session : {None, "", "cfg-session"},
     extra : ExtraDicts]

InitSession ==
    /\ max_concurrency = 1
    /\ max_retries \in 0..MaxRetries
    /\ configs \in { << c >> : c \in SessionConfigs }
    /\ direct = {1}
    /\ InitTasks(1)
    /\ session_id \in SessionIds
    /\ iter = "direct"
    /\ semaphore = 0
    /\ holding = {}
    /\ completed = << >>
    /\ yielded = << >>
    /\ InitRest

NextSession == NextScrape

SpecSession == InitSession /\ [][NextSession]_vars

----------------------------------------------------------------------------
(* async_scrape awaited directly, its calls failing with errors whose texts
   are and are not among RETRYABLE_ERRORS. *)

HangUpFailure == Exc("ScrappeyRequestError", "Socket hang up", "CODE-0010")

NavigationFailure ==
    Exc("ScrappeyTimeoutError", "Navigation Timeout", "CODE-0010")

RetryResults ==
    TransportResults \cup {Raised(HangUpFailure), Raised(NavigationFailure)}

InitRetry ==
    /\ max_concurrency = 1
    /\ max_retries \in 0..MaxRetries + 1
    /\ configs \in ConfigLists(1, ConfigTimeouts)
    /\ direct = {1}
    /\ InitTasks(1)
    /\ session_id = None
    /\ iter = "direct"
    /\ semaphore = 0
    /\ holding = {}
    /\ completed = << >>
    /\ yielded = << >>
    /\ InitRest

NextRetry ==
    \/ \E i \in Tasks : Call(i) /\ UNCHANGED restVars
    \/ \E i \in Tasks : \E r \in RetryResults :
          TransportReturn(i, r) /\ UNCHANGED restVars
    \/ \E i \in Tasks : SleepEnd(i) /\ UNCHANGED restVars

SpecRetry == InitRetry /\ [][NextRetry]_vars

----------------------------------------------------------------------------
(* The claims. *)

IterationEnded == iter \in {"exhausted", "raised"}

Batch == iter # "direct"

(* Task i is complete and its last Transport call failed. *)
FatallyFailed(i) ==
    /\ pc[i] = "done"
    /\ calls[i] > 0
    /\ (only_transient[i] \/ auth_failed[i])

(* Task i is complete and every one of its Transport calls failed with a
   non-auth error. *)
RetriesFailed(i) == pc[i] = "done" /\ calls[i] > 0 /\ only_transient[i]

(* A result is a ScrapeApiResponse with a 2xx status code. *)
SuccessShaped(res) ==
    /\ res.kind = "return"
    /\ res.value.type = "ScrapeApiResponse"
    /\ res.value.status_code \in 200..299

(* C1: the consumer never holds more than N elements, and once its iteration
   of concurrent_scrape has ended (the sequence is exhausted, or an exception
   came out of it) it holds exactly N, exactly one for each submitted
   request, whatever the Transport calls returned or raised. *)
C1_ExactlyOneOutcomePerRequest ==
    /\ Len(yielded) <= Len(configs)
    /\ IterationEnded =>
          /\ Len(yielded) = Len(configs)
          /\ \A i \in Tasks :
                Cardinality({ k \in 1..Len(yielded) :
                                OutcomeUrl(yielded[k]) = configs[i].url }) = 1

(* A full batch has been consumed in which one request failed with auth and
   another exhausted its retries. *)
C1_Witness ==
    /\ iter = "exhausted"
    /\ Len(configs) = MaxBatch
    /\ \E i \in Tasks : auth_failed[i]
    /\ \E i \in Tasks : RetriesFailed(i) /\ sleeps[i] > 0

(* C2 (as claimed): in a batch no error is raised out of the iteration, and
   every request whose last Transport call failed, with auth or not, is
   delivered as a ScrapflyScrapeError element. *)
C2_ErrorsAreFailureElements ==
    Batch =>
      /\ iter # "raised"
      /\ \A i \in Tasks :
            FatallyFailed(i) =>
              /\ task_result[i].kind = "return"
              /\ task_result[i].value.type = "ScrapflyScrapeError"

(* C3: in every state of a batch run the Transport calls in flight number at
   most max_concurrency. *)
C3_InFlightBounded ==
    Batch => Cardinality(InFlight) <= max_concurrency

(* The gate is full after a retry while another request waits for a slot. *)
C3_Witness ==
    /\ Batch
    /\ Cardinality(InFlight) = max_concurrency
    /\ \E i \in Tasks : pc[i] = "pending"
    /\ \E i \in InFlight : sleeps[i] > 0

(* C4 (as claimed): no request holds a concurrency slot while it is in its
   backoff sleep. *)
C4_NoSlotHeldWhileSleeping ==
    \A i \in Tasks : pc[i] = "sleep" => i \notin holding

(* C5: once a Transport call of a request has failed with AuthError the
   request makes no further call and no sleep, and a request whose calls all
   failed with AuthError has made exactly one. *)
C5_AuthNeverRetried ==
    [][ \A i \in Tasks :
          /\ auth_failed[i] =>
                /\ calls'[i] = calls[i]
                /\ sleeps'[i] = sleeps[i]
                /\ pc'[i] = "done"
          /\ (auth_failed'[i] /\ only_auth'[i]) => calls'[i] = 1 ]_vars

(* A request failed with auth on its first call although retries were
   allowed; another did so on a retry. *)
C5_Witness ==
    /\ max_retries >= 1
    /\ \E i \in Tasks : auth_failed[i] /\ only_auth[i] /\ pc[i] = "done"

C5_WitnessOnRetry ==
    \E i \in Tasks : auth_failed[i] /\ sleeps[i] > 0

(* C6: a request whose Transport calls all fail with non-auth errors is
   complete after exactly max_retries + 1 calls and max_retries sleeps, and
   it never sleeps after its last allowed call. *)
C6_TransientAttemptedRPlusOne ==
    \A i \in Tasks :
        /\ RetriesFailed(i) =>
              calls[i] = max_retries + 1 /\ sleeps[i] = max_retries
        /\ pc[i] = "sleep" => calls[i] <= max_retries
        /\ sleeps[i] <= max_retries

(* A request has used up two retries. *)
C6_Witness ==
    \E i \in Tasks :
        RetriesFailed(i) /\ max_retries = MaxRetries + 1 /\ sleeps[i] = max_retries

(* C7 (as claimed): a request whose last allowed attempt failed with a
   non-auth error never ends in a success-shaped outcome, neither as the
   value of async_scrape nor as the batch element. *)
C7_ExhaustedIsNotSuccessShaped ==
    \A i \in Tasks :
        RetriesFailed(i) =>
          /\ ~SuccessShaped(scrape_result[i])
          /\ Batch => ~SuccessShaped(task_result[i])

(* C8: async_scrape raises nothing but ScrappeyAuthError; a request whose
   calls all failed with non-auth errors ends with a returned value. *)
C8_OnlyAuthErrorRaised ==
    \A i \in Tasks :
        /\ scrape_result[i].kind = "raise" =>
              scrape_result[i].exc.cls = "ScrappeyAuthError"
        /\ RetriesFailed(i) => scrape_result[i].kind = "return"
        /\ pc[i] = "done" => scrape_result[i].kind \in {"return", "raise"}

(* A direct call has ended after a retry on an exception that is not one of
   the wrapper's own classes. *)
C8_Witness ==
    /\ iter = "direct"
    /\ \E i \in Tasks :
          /\ RetriesFailed(i)
          /\ sleeps[i] > 0
          /\ last_error[i] = OtherFailure
          /\ scrape_result[i].kind = "return"

(* C9 (as claimed): a Transport call uses the timeout of its ScrapeConfig
   when that sets one, and the client's only when it does not. *)
C9_RequestTimeoutWins ==
    \A i \in Tasks :
        calls[i] > 0 =>
          used_timeout[i] =
            IF configs[i].timeout > 0 THEN configs[i].timeout
            ELSE DefaultTimeout

(* The bounds of C10, times DelayScale: 0.75 is 3 * JitterSteps and 1.25 is
   5 * JitterSteps. *)
Uncut(a) == retry_delay * Pow2(a)
Cut(a) == IF Uncut(a) <= retry_max_delay THEN Uncut(a) ELSE retry_max_delay

(* C10 (as claimed): the delay of _get_retry_delay(a) lies within
   [base * 2^a * 0.75, min(cap, base * 2^a) * 1.25]. *)
C10_DelayWithinClaimedBounds ==
    delay_attempt # NoAttempt =>
      /\ Uncut(delay_attempt) * 3 * JitterSteps <= delay_scaled
      /\ delay_scaled <= Cut(delay_attempt) * 5 * JitterSteps

(* C10 (amended): for retry_delay >= 0 and retry_max_delay >= 0 the delay of
   _get_retry_delay(a) lies within
   [min(cap, base * 2^a) * 0.75, min(cap, base * 2^a) * 1.25]. *)
C10_DelayWithinCappedBounds ==
    delay_attempt # NoAttempt =>
      /\ Cut(delay_attempt) * 3 * JitterSteps <= delay_scaled
      /\ delay_scaled <= Cut(delay_attempt) * 5 * JitterSteps

(* The cap has cut the backoff and the draw was the lowest. *)
C10_Witness ==
    /\ delay_attempt >= 1
    /\ retry_max_delay > 0
    /\ Uncut(delay_attempt) > retry_max_delay
    /\ delay_draw = 0
    /\ delay_scaled = retry_max_delay * 3 * JitterSteps

(* C11: a constructed client has max_concurrency within 1..100: 1 for an
   argument below 1, 100 for one above 100, the argument itself otherwise;
   and the constructor raises only for want of a key, never because of the
   max_concurrency argument. *)
C11_ConcurrencyClamped ==
    /\ ctor_state = "ok" =>
          /\ max_concurrency \in 1..100
          /\ ctor_arg < 1 => max_concurrency = 1
          /\ ctor_arg > 100 => max_concurrency = 100
          /\ ctor_arg \in 1..100 => max_concurrency = ctor_arg
    /\ ctor_state = "raised" => ctor_key = ""

(* 500 was given and 100 is kept. *)
C11_Witness ==
    ctor_state = "ok" /\ ctor_arg = FarAbove /\ max_concurrency = 100

(* 0 or a negative number was given and 1 is kept. *)
C11_WitnessBelow ==
    ctor_state = "ok" /\ ctor_arg < 0 /\ max_concurrency = 1

(* C12 (as claimed): over everything one client runs at the same time, the
   batch and the direct async_scrape calls together, the Transport calls in
   flight number at most max_concurrency. *)
C12_ClientWideBound ==
    Cardinality(InFlight) <= max_concurrency

(* C13 (as claimed): once the consumer has abandoned the sequence, no
   request makes another Transport call, neither its first nor a retry. *)
C13_NoAttemptAfterAbandon ==
    [][ iter = "abandoned" => \A i \in Tasks : calls'[i] = calls[i] ]_vars

(* C14: the elements the consumer holds are those of the tasks that finished
   first, in the order the tasks finished, whatever their places in the
   list. *)
C14_CompletionOrder ==
    /\ Len(yielded) <= Len(completed)
    /\ \A k \in 1..Len(yielded) :
          OutcomeUrl(yielded[k]) = configs[completed[k]].url

(* The second config of the list finished first and was delivered first. *)
C14_Witness ==
    /\ Len(yielded) = 2
    /\ completed[1] = 2
    /\ OutcomeUrl(yielded[1]) = configs[2].url
    /\ OutcomeUrl(yielded[2]) = configs[1].url

(* _make_request has answered a response, one whose body was JSON. *)
Answered ==
    /\ transport_result # NoResult
    /\ http_outcome.kind = "response"

TypedFailure(res) ==
    /\ res.kind = "raise"
    /\ res.exc.cls \in {"ScrappeyAuthError", "ScrappeyTimeoutError",
                         "ScrappeyRequestError"}

(* C15 (as claimed): _make_request raises a typed failure, and returns no
   result, for every response whose HTTP status is not 2xx and for every
   response whose decoded body carries an error. *)
C15_BothFailureShapesRaised ==
    Answered =>
      /\ http_outcome.status \notin 200..299 => TypedFailure(transport_result)
      /\ (http_outcome.json /\ "error" \in DOMAIN http_outcome.data) =>
            TypedFailure(transport_result)

(* C16: a body with an error is classified by a fixed precedence: code
   CODE-0001 gives ScrappeyAuthError whatever the text; otherwise a text
   with "timeout" in any letter case gives ScrappeyTimeoutError; otherwise
   ScrappeyRequestError; each carries the body's code and text.  A transport
   timeout gives ScrappeyTimeoutError too. *)
C16_ClassificationPrecedence ==
    /\ (Answered /\ http_outcome.json /\ "error" \in DOMAIN http_outcome.data) =>
          LET data == http_outcome.data
              code == IF "code" \in DOMAIN data THEN data.code ELSE "UNKNOWN"
              text == data.error
              mentions == text \in {MsgTimeoutLower, MsgTimeoutUpper,
                                    MsgTimeoutMixed, MsgBadKeyTimeout}
          IN  /\ transport_result.kind = "raise"
              /\ transport_result.exc.cls =
                    IF code = "CODE-0001" THEN "ScrappeyAuthError"
                    ELSE IF mentions THEN "ScrappeyTimeoutError"
                    ELSE "ScrappeyRequestError"
              /\ transport_result.exc.message = text
              /\ transport_result.exc.code = code
    /\ (transport_result # NoResult /\ http_outcome.kind = "TimeoutException") =>
          /\ transport_result.kind = "raise"
          /\ transport_result.exc.cls = "ScrappeyTimeoutError"

(* The invalid-credentials code came with a text that mentions a timeout. *)
C16_Witness ==
    /\ Answered
    /\ http_outcome.json
    /\ "code" \in DOMAIN http_outcome.data
    /\ http_outcome.data.code = "CODE-0001"
    /\ http_outcome.data.error = MsgBadKeyTimeout
    /\ transport_result.exc.cls = "ScrappeyAuthError"

(* A text in capitals was classified as a timeout. *)
C16_WitnessUpper ==
    /\ Answered
    /\ http_outcome.json
    /\ "error" \in DOMAIN http_outcome.data
    /\ http_outcome.data.error = MsgTimeoutUpper
    /\ transport_result.exc.cls = "ScrappeyTimeoutError"

(* C17 (as claimed): to_scrappey_payload leaves every field of the
   ScrapeConfig as it was constructed, and the payloads of two translations
   of the config are equal. *)
C17_TranslationLeavesConfig ==
    /\ tr_config = tr_original
    /\ \A j, k \in 1..Len(tr_payloads) :
          PayloadValue(tr_payloads[j], tr_config) =
            PayloadValue(tr_payloads[k], tr_config)

Count(present) == IF present THEN 1 ELSE 0

(* C18: browserActions lists the selector-wait first, then the scripted
   actions in their given order, then the script execution, then the
   auto-scroll, then the post-render wait: one entry per present item, and
   no key when none is present. *)
C18_BrowserActionsOrder ==
    \A t \in 1..Len(tr_payloads) :
      LET c == tr_original
          p == tr_payloads[t]
          w == Count(c.wait_for_selector # None)
          n == Len(c.js_scenario)
          j == Count(c.js # None)
          a == Count(c.auto_scroll)
          r == Count(c.rendering_wait # NoWait)
          ba == p.browserActions
      IN  IF w + n + j + a + r = 0
          THEN "browserActions" \notin DOMAIN p
          ELSE /\ "browserActions" \in DOMAIN p
               /\ Len(ba) = w + n + j + a + r
               /\ w = 1 => /\ ba[1].type = "wait_for_selector"
                           /\ ba[1].cssSelector = c.wait_for_selector
               /\ \A k \in 1..n :
                     ba[w + k] = ConvertJsScenarioAction(c.js_scenario[k])
               /\ j = 1 => ba[w + n + 1] =
                             [type |-> "execute_js", code |-> c.js]
               /\ a = 1 => ba[w + n + j + 1] = [type |-> "scroll"]
               /\ r = 1 => ba[w + n + j + a + 1].type = "wait"

(* A selector-wait, two scripted actions and auto-scroll gave four entries:
   the selector-wait, the click, the wait, the scroll. *)
C18_Witness ==
    /\ Len(tr_payloads) >= 1
    /\ tr_original.wait_for_selector = "#main"
    /\ tr_original.js_scenario = << ClickAction, WaitAction >>
    /\ tr_original.js = None
    /\ tr_original.auto_scroll
    /\ tr_original.rendering_wait = NoWait
    /\ Len(tr_payloads[1].browserActions) = 4
    /\ [k \in 1..4 |-> tr_payloads[1].browserActions[k].type] =
          << "wait_for_selector", "click", "wait", "scroll" >>

(* All five are present, the script after the scripted actions. *)
C18_WitnessAll ==
    /\ Len(tr_payloads) >= 1
    /\ tr_original.wait_for_selector = "#main"
    /\ tr_original.js_scenario = << WaitAction, ClickAction >>
    /\ tr_original.js = "go()"
    /\ tr_original.auto_scroll
    /\ tr_original.rendering_wait = 2000
    /\ [k \in 1..6 |-> tr_payloads[1].browserActions[k].type] =
          << "wait_for_selector", "wait", "click", "execute_js", "scroll",
             "wait" >>

(* C19 (as claimed): with a session_id argument and a session of the config
   both present, every payload given to _make_request carries the
   session_id argument as its session, whatever else the config holds; and
   the payloads of all attempts of a request are the one payload built
   before the first. *)
C19_OverrideWins ==
    \A i \in Tasks : \A k \in 1..Len(sent[i]) :
      /\ sent[i][k] = sent[i][1]
      /\ (TruthyStr(session_id) /\ TruthyStr(Field(configs[i], "session"))) =>
            /\ "session" \in DOMAIN sent[i][k]
            /\ sent[i][k].session = session_id

(* The texts an outcome's message is made of.  The message of a
   ScrapflyScrapeError is str(e); the "error" entry of the raw response of
   a ScrapeApiResponse is str(last_error): one text each, nothing added. *)
OutcomeMessageParts(o) ==
    IF o.type = "ScrapflyScrapeError" THEN {o.message}
    ELSE IF "error" \in DOMAIN o.raw_response THEN {o.raw_response.error}
    ELSE {}

(* C20 (as claimed): the outcome of a request whose retries are exhausted
   carries a message that includes the number of attempts made and the text
   of the last error. *)
C20_ExhaustedMessage ==
    \A i \in Tasks :
        RetriesFailed(i) =>
          /\ scrape_result[i].kind = "return"
          /\ Str(last_error[i]) \in OutcomeMessageParts(scrape_result[i].value)
          /\ ToString(calls[i]) \in OutcomeMessageParts(scrape_result[i].value)

(* The calls of request i ended with a result, after transient failures
   only. *)
Recovered(i) == pc[i] = "done" /\ ~only_transient[i] /\ ~auth_failed[i]

(* C21: when a Transport call of a request returns a result after k calls
   that all failed with non-auth errors (0 <= k <= max_retries), the request
   is complete with a success outcome built from that result, after exactly
   k + 1 calls and k sleeps; in a batch that outcome is the task's element,
   and once the iteration has ended every such request has been delivered,
   whatever the other requests did. *)
C21_RecoversAfterTransientFailures ==
    /\ [][ \A i \in Tasks :
             (pc[i] = "request" /\ only_transient[i]
                /\ ~only_transient'[i] /\ ~auth_failed'[i]) =>
               /\ pc'[i] = "done"
               /\ SuccessShaped(scrape_result'[i])
               /\ scrape_result'[i].value.raw_response = SuccessData
               /\ scrape_result'[i].value.html = SuccessData.solution.response
               /\ scrape_result'[i].value.original_url = configs[i].url
               /\ calls'[i] = sleeps'[i] + 1
               /\ calls'[i] = calls[i]
               /\ sleeps'[i] <= max_retries
               /\ i \in BatchTasks => task_result'[i] = scrape_result'[i] ]_vars
    /\ [](iter = "exhausted" =>
            \A i \in BatchTasks :
               Recovered(i) =>
                 \E k \in 1..Len(yielded) : yielded[k] = task_result[i].value)

(* A batch of two has ended: one request failed once and then succeeded,
   the other succeeded at once, and both were delivered as successes. *)
C21_Witness ==
    /\ iter = "exhausted"
    /\ Len(configs) = 2
    /\ Len(yielded) = 2
    /\ \A i \in Tasks : Recovered(i) /\ SuccessShaped(task_result[i])
    /\ \E i \in Tasks : sleeps[i] = 1 /\ calls[i] = 2
    /\ \E i \in Tasks : sleeps[i] = 0 /\ calls[i] = 1

(* C22: when a call that is not the last allowed one fails with anything
   but an auth error, the request goes to sleep, whatever the class and the
   text of the error; and a sleep ends in nothing but the next call. *)
C22_EveryTransientFailureRetried ==
    [][ \A i \in Tasks :
          /\ (pc[i] = "request" /\ pc'[i] # "request" /\ only_transient'[i]
                 /\ attempt[i] < max_retries) =>
                /\ pc'[i] = "sleep"
                /\ sleeps'[i] = sleeps[i] + 1
                /\ calls'[i] = calls[i]
          /\ (pc[i] = "sleep" /\ pc'[i] # "sleep") =>
                /\ pc'[i] = "request"
                /\ calls'[i] = calls[i] + 1
                /\ attempt'[i] = attempt[i] + 1 ]_vars

(* A call follows a failure whose text is none of RETRYABLE_ERRORS and
   whose class is none of the client's. *)
C22_Witness ==
    \E i \in Tasks :
        /\ pc[i] = "request"
        /\ calls[i] = 2
        /\ last_error[i] = OtherFailure
        /\ ~IsRetryableError(OtherFailure)

(* A call follows a failure whose text is among RETRYABLE_ERRORS. *)
C22_WitnessListed ==
    \E i \in Tasks :
        /\ pc[i] = "request"
        /\ calls[i] = 2
        /\ last_error[i] = HangUpFailure
        /\ IsRetryableError(HangUpFailure)

Delivered(i) ==
    /\ i \in Tasks
    /\ pc[i] = "done"
    /\ \E k \in 1..Len(yielded) : yielded[k] = task_result[i].value

(* C23: with every call and every sleep ending and fair scheduling, the
   batch finishes: the iteration ends with every request complete and
   delivered, so that none is left waiting for a slot. *)
C23_BatchTerminates ==
    <>(iter = "exhausted" /\ \A i \in Tasks : Delivered(i))

(* A batch of MaxBatch requests on one slot has ended: a request retried
   with the slot in its hand while another waited, and all were delivered. *)
C23_Witness ==
    /\ iter = "exhausted"
    /\ max_concurrency = 1
    /\ Len(configs) = MaxBatch
    /\ \A i \in Tasks : Delivered(i)
    /\ \E i \in Tasks : sleeps[i] >= 1

====
